---- MODULE Spec2Model ----
(***************************************************************************)
(* LRU-K replacer of crab-db (src/buffer_pool/eviction/lru_k).             *)
(*                                                                         *)
(* The replacer state (node_store, current_size, current_timestamp) is     *)
(* the content of the RwLock in LRUKReplacer.  Every operation of the      *)
(* Replacer trait takes `&mut self`, so calls on one replacer are          *)
(* serialised by the exclusive borrow: a call runs to completion before    *)
(* the next one starts.  evict is modelled in its two critical sections:   *)
(* the scan (lines 62-93, guard dropped at the end of the block) and the   *)
(* call of self.remove on the chosen frame (lines 95-102).                 *)
(*                                                                         *)
(* pre and ret are history variables: the replacer state at the start of   *)
(* the last call, and what that call returned.  issued is a history        *)
(* variable too: for every tracked frame, the timestamps handed to it by   *)
(* record_access since its tracker was created.                            *)
(***************************************************************************)
EXTENDS Integers, Sequences, FiniteSets, TLC

\* ---- bounds of the model ----
MaxFrame == 3
MaxCapacity == 2
MaxK == 2
MaxClock == 5

\* u64::MAX, scaled to the integer range of the checker.  Only its order
\* relative to the timestamps (all below MaxClock) matters.
U64_MAX == 1073741823

\* Option<FrameId>::None
NoFrame == 0

Frames == 1..MaxFrame

VARIABLES replacer_size, max_accesses, current_size, current_timestamp,
          node_store, lock, pc, evicted_frame, ret, pre, issued

vars == <<replacer_size, max_accesses, current_size, current_timestamp,
          node_store, lock, pc, evicted_frame, ret, pre, issued>>

\* ---- error messages ----
ErrCapacity == "Frame cannot exceed replacer size"
ErrNotEvictable == "Frame is marked as not evictable"
ErrRemoveUnknown == "Frame doesn't exist; invalid remove command"
ErrSetEvictableUnknown == "Frame doesn't exist to set_evictable"
ErrEvictRemove == "Failed to remove evicted frame from replacer"

\* ---- LRUKNode ----
\* a tracker that is born evictable
LRUKNode_new_evictable == [history |-> <<>>, is_evictable |-> TRUE]

LRUKNode_new == [history |-> <<>>, is_evictable |-> FALSE]

history_length(node) == Len(node.history)

front_of_history(node) == Head(node.history)

\* a window that drops its newest entry when it overflows
record_history_drops_newest(node, timestamp) ==
    LET pushed == Append(node.history, timestamp)
    IN  [node EXCEPT !.history =
            IF Len(pushed) > max_accesses
            THEN SubSeq(pushed, 1, Len(pushed) - 1)
            ELSE pushed]

\* a window that drops its oldest entry as soon as it is full
record_history_drops_early(node, timestamp) ==
    LET pushed == Append(node.history, timestamp)
    IN  [node EXCEPT !.history =
            IF Len(pushed) >= max_accesses THEN Tail(pushed) ELSE pushed]

record_history(node, timestamp) ==
    LET pushed == Append(node.history, timestamp)
    IN  [node EXCEPT !.history =
            IF Len(pushed) > max_accesses THEN Tail(pushed) ELSE pushed]

is_evictable(node) == node.is_evictable

node_set_evictable(node, b) == [node EXCEPT !.is_evictable = b]

\* ---- HashMap<FrameId, LRUKNode> as a function on the tracked frames ----
map_insert(m, k, v) == [x \in (DOMAIN m) \cup {k} |-> IF x = k THEN v ELSE m[x]]

\* a removal that leaves the entry in the map
map_remove_keeps_entry(m, k) == m

map_remove(m, k) == [x \in (DOMAIN m) \ {k} |-> m[x]]

map_len(m) == Cardinality(DOMAIN m)

\* ---- LRUKReplacerState ----
LRUKReplacerState ==
    [current_size |-> current_size,
     current_timestamp |-> current_timestamp,
     node_store |-> node_store]

\* ---- operations on a state s: the result and the state left behind ----
\* record_access that advances the clock before it records the access
record_access_ticks_first(s, frame_id) ==
    IF frame_id \in DOMAIN s.node_store
    THEN [res |-> "Ok",
          state |-> [s EXCEPT
              !.node_store[frame_id] = record_history(@, s.current_timestamp + 1),
              !.current_timestamp = @ + 1]]
    ELSE IF map_len(s.node_store) > replacer_size
    THEN [res |-> ErrCapacity, state |-> s]
    ELSE [res |-> "Ok",
          state |-> [s EXCEPT
              !.node_store = map_insert(@, frame_id,
                  record_history(LRUKNode_new, s.current_timestamp + 1)),
              !.current_timestamp = @ + 1]]

\* record_access that hands the same timestamp to every new tracker
record_access_no_tick_on_new(s, frame_id) ==
    IF frame_id \in DOMAIN s.node_store
    THEN [res |-> "Ok",
          state |-> [s EXCEPT
              !.node_store[frame_id] = record_history(@, s.current_timestamp),
              !.current_timestamp = @ + 1]]
    ELSE IF map_len(s.node_store) > replacer_size
    THEN [res |-> ErrCapacity, state |-> s]
    ELSE [res |-> "Ok",
          state |-> [s EXCEPT
              !.node_store = map_insert(@, frame_id,
                  record_history(LRUKNode_new, s.current_timestamp))]]

\* record_access that advances the clock only when it creates a tracker
record_access_no_tick_on_existing(s, frame_id) ==
    IF frame_id \in DOMAIN s.node_store
    THEN [res |-> "Ok",
          state |-> [s EXCEPT
              !.node_store[frame_id] = record_history(@, s.current_timestamp)]]
    ELSE IF map_len(s.node_store) > replacer_size
    THEN [res |-> ErrCapacity, state |-> s]
    ELSE [res |-> "Ok",
          state |-> [s EXCEPT
              !.node_store = map_insert(@, frame_id,
                  record_history(LRUKNode_new, s.current_timestamp)),
              !.current_timestamp = @ + 1]]

record_access(s, frame_id) ==
    IF frame_id \in DOMAIN s.node_store
    THEN [res |-> "Ok",
          state |-> [s EXCEPT
              !.node_store[frame_id] = record_history(@, s.current_timestamp),
              !.current_timestamp = @ + 1]]
    ELSE IF map_len(s.node_store) > replacer_size
    THEN [res |-> ErrCapacity, state |-> s]
    ELSE [res |-> "Ok",
          state |-> [s EXCEPT
              !.node_store = map_insert(@, frame_id,
                  record_history(LRUKNode_new, s.current_timestamp)),
              !.current_timestamp = @ + 1]]

\* remove without the decrement of current_size
remove_no_decrement(s, frame_id) ==
    IF frame_id \in DOMAIN s.node_store
    THEN IF is_evictable(s.node_store[frame_id])
         THEN [res |-> "Ok",
               state |-> [s EXCEPT !.node_store = map_remove(@, frame_id)]]
         ELSE [res |-> ErrNotEvictable, state |-> s]
    ELSE [res |-> ErrRemoveUnknown, state |-> s]

\* remove without the test of the evictable flag
remove_ignores_flag(s, frame_id) ==
    IF frame_id \in DOMAIN s.node_store
    THEN [res |-> "Ok",
          state |-> [s EXCEPT
              !.node_store = map_remove(@, frame_id),
              !.current_size =
                  IF is_evictable(s.node_store[frame_id]) THEN @ - 1 ELSE @]]
    ELSE [res |-> ErrRemoveUnknown, state |-> s]

\* remove with the two error branches exchanged
remove_swapped_errors(s, frame_id) ==
    IF frame_id \in DOMAIN s.node_store
    THEN IF is_evictable(s.node_store[frame_id])
         THEN [res |-> "Ok",
               state |-> [s EXCEPT
                   !.node_store = map_remove(@, frame_id),
                   !.current_size = @ - 1]]
         ELSE [res |-> ErrRemoveUnknown, state |-> s]
    ELSE [res |-> ErrNotEvictable, state |-> s]

remove(s, frame_id) ==
    IF frame_id \in DOMAIN s.node_store
    THEN IF is_evictable(s.node_store[frame_id])
         THEN [res |-> "Ok",
               state |-> [s EXCEPT
                   !.node_store = map_remove(@, frame_id),
                   !.current_size = @ - 1]]
         ELSE [res |-> ErrNotEvictable, state |-> s]
    ELSE [res |-> ErrRemoveUnknown, state |-> s]

\* set_evictable that counts a frame again when its flag is already set
set_evictable_counts_again(s, frame_id, b) ==
    IF frame_id \notin DOMAIN s.node_store
    THEN [res |-> ErrSetEvictableUnknown, state |-> s]
    ELSE IF b
    THEN [res |-> "Ok",
          state |-> [s EXCEPT
              !.node_store[frame_id] = node_set_evictable(@, TRUE),
              !.current_size = @ + 1]]
    ELSE IF is_evictable(s.node_store[frame_id])
    THEN [res |-> "Ok",
          state |-> [s EXCEPT
              !.node_store[frame_id] = node_set_evictable(@, FALSE),
              !.current_size = @ - 1]]
    ELSE [res |-> "Ok", state |-> s]

\* set_evictable without the early return on an untracked frame
set_evictable_counts_unknown(s, frame_id, b) ==
    IF frame_id \notin DOMAIN s.node_store
    THEN [res |-> "Ok",
          state |-> IF b THEN [s EXCEPT !.current_size = @ + 1] ELSE s]
    ELSE IF is_evictable(s.node_store[frame_id])
    THEN IF b
         THEN [res |-> "Ok", state |-> s]
         ELSE [res |-> "Ok",
               state |-> [s EXCEPT
                   !.node_store[frame_id] = node_set_evictable(@, FALSE),
                   !.current_size = @ - 1]]
    ELSE IF b
         THEN [res |-> "Ok",
               state |-> [s EXCEPT
                   !.node_store[frame_id] = node_set_evictable(@, TRUE),
                   !.current_size = @ + 1]]
         ELSE [res |-> "Ok", state |-> s]

set_evictable(s, frame_id, b) ==
    IF frame_id \notin DOMAIN s.node_store
    THEN [res |-> ErrSetEvictableUnknown, state |-> s]
    ELSE IF is_evictable(s.node_store[frame_id])
    THEN IF b
         THEN [res |-> "Ok", state |-> s]
         ELSE [res |-> "Ok",
               state |-> [s EXCEPT
                   !.node_store[frame_id] = node_set_evictable(@, FALSE),
                   !.current_size = @ - 1]]
    ELSE IF b
         THEN [res |-> "Ok",
               state |-> [s EXCEPT
                   !.node_store[frame_id] = node_set_evictable(@, TRUE),
                   !.current_size = @ + 1]]
         ELSE [res |-> "Ok", state |-> s]

size(s) == s.current_size

\* ---- the scan of evict ----
\* u64 subtraction (wrapping, as in a release build)
wrapping_sub(a, b) == (a - b) % (U64_MAX + 1)

\* a start distance that never is the maximum value
start_distance_always_clock(node, now) == now

start_distance(node, now) ==
    IF history_length(node) >= max_accesses THEN now ELSE U64_MAX

\* a distance measured from the latest access of the window
backwards_k_distance_from_latest(node, now) ==
    wrapping_sub(start_distance(node, now), node.history[Len(node.history)])

backwards_k_distance(node, now) ==
    wrapping_sub(start_distance(node, now), front_of_history(node))

\* a loop body without the skip of non-evictable nodes
scan_step_ignores_flag(s, acc, frame_id) ==
    LET node == s.node_store[frame_id]
    IN  IF acc.panicked THEN acc
        ELSE IF history_length(node) = 0 THEN [acc EXCEPT !.panicked = TRUE]
        ELSE IF backwards_k_distance(node, s.current_timestamp) > acc.max_k_distance
        THEN [acc EXCEPT !.evicted_frame = frame_id,
                         !.max_k_distance =
                             backwards_k_distance(node, s.current_timestamp)]
        ELSE acc

\* one iteration of the loop body on the running (evicted_frame, max_k_distance)
scan_step(s, acc, frame_id) ==
    LET node == s.node_store[frame_id]
    IN  IF acc.panicked \/ ~is_evictable(node) THEN acc
        ELSE IF history_length(node) = 0 THEN [acc EXCEPT !.panicked = TRUE]
        ELSE IF backwards_k_distance(node, s.current_timestamp) > acc.max_k_distance
        THEN [acc EXCEPT !.evicted_frame = frame_id,
                         !.max_k_distance =
                             backwards_k_distance(node, s.current_timestamp)]
        ELSE acc

RECURSIVE scan_from(_, _, _, _)
scan_from(s, order, i, acc) ==
    IF i > Len(order) THEN acc
    ELSE scan_from(s, order, i + 1, scan_step(s, acc, order[i]))

scan(s, order) ==
    scan_from(s, order, 1,
        [evicted_frame |-> NoFrame, max_k_distance |-> 0, panicked |-> FALSE])

\* the orders in which a HashMap may hand out its entries
iter_orders(m) ==
    {o \in [1..map_len(m) -> DOMAIN m] :
        \A i, j \in 1..map_len(m) : i # j => o[i] # o[j]}

\* ---- the RwLock around the state and the borrow of the replacer ----
\* RwLock::write returns once nobody holds the lock; the lock is not reentrant
can_write(l) == l = "free"

\* RwLock::read returns once no writer holds the lock
can_read(l) == l # "write"

\* a guard that lives to the end of the function releases the lock on return
guard_dropped(l) == "free"

\* the guard of the scan kept until evict returns
evict_block_end_keeps_guard(l) == l

\* the guard of the scan is dropped at the end of the inner block of evict
evict_block_end(l) == "free"

\* a receiver that lets calls overlap (&self)
borrow_shared(p) == TRUE

\* every operation takes &mut self: a call starts only when no other call
\* on the replacer is in progress
borrow_free(p) == p = "idle"

\* ---- return values ----
Ret(op, frame_id, flag, res, value) ==
    [op |-> op, frame_id |-> frame_id, flag |-> flag, res |-> res, value |-> value]

Apply(s) ==
    /\ current_size' = s.current_size
    /\ current_timestamp' = s.current_timestamp
    /\ node_store' = s.node_store

\* the timestamps issued to the tracked frames, after a call on frame_id that
\* left store_after behind; accessed: the call was a successful record_access
issued_after(store_after, frame_id, accessed) ==
    [f \in DOMAIN store_after |->
        LET sofar == IF f \in DOMAIN issued THEN issued[f] ELSE << >>
        IN  IF accessed /\ f = frame_id
            THEN Append(sofar, current_timestamp)
            ELSE sofar]

\* ---- construction ----
Init ==
    /\ replacer_size \in 1..MaxCapacity
    /\ max_accesses \in 1..MaxK
    /\ current_size = 0
    /\ current_timestamp = 1
    /\ node_store = << >>
    /\ lock = "free"
    /\ pc = "idle"
    /\ evicted_frame = NoFrame
    /\ ret = Ret("new", NoFrame, FALSE, "Ok", 0)
    /\ pre = [current_size |-> 0, current_timestamp |-> 1, node_store |-> << >>]
    /\ issued = << >>

\* ---- calls ----
RecordAccess(frame_id) ==
    /\ borrow_free(pc)
    /\ can_write(lock)
    /\ lock' = guard_dropped("write")
    /\ current_timestamp < MaxClock
    /\ LET r == record_access(LRUKReplacerState, frame_id)
       IN  /\ Apply(r.state)
           /\ ret' = Ret("record_access", frame_id, FALSE, r.res, 0)
           /\ issued' = issued_after(r.state.node_store, frame_id, r.res = "Ok")
    /\ pre' = LRUKReplacerState
    /\ UNCHANGED <<replacer_size, max_accesses, pc, evicted_frame>>

Remove(frame_id) ==
    /\ borrow_free(pc)
    /\ can_write(lock)
    /\ lock' = guard_dropped("write")
    /\ LET r == remove(LRUKReplacerState, frame_id)
       IN  /\ Apply(r.state)
           /\ ret' = Ret("remove", frame_id, FALSE, r.res, 0)
           /\ issued' = issued_after(r.state.node_store, frame_id, FALSE)
    /\ pre' = LRUKReplacerState
    /\ UNCHANGED <<replacer_size, max_accesses, pc, evicted_frame>>

SetEvictable(frame_id, b) ==
    /\ borrow_free(pc)
    /\ can_write(lock)
    /\ lock' = guard_dropped("write")
    /\ LET r == set_evictable(LRUKReplacerState, frame_id, b)
       IN  /\ Apply(r.state)
           /\ ret' = Ret("set_evictable", frame_id, b, r.res, 0)
           /\ issued' = issued_after(r.state.node_store, frame_id, FALSE)
    /\ pre' = LRUKReplacerState
    /\ UNCHANGED <<replacer_size, max_accesses, pc, evicted_frame>>

Size ==
    /\ borrow_free(pc)
    /\ can_read(lock)
    /\ lock' = guard_dropped("read")
    /\ ret' = Ret("size", NoFrame, FALSE, "Ok", size(LRUKReplacerState))
    /\ pre' = LRUKReplacerState
    /\ UNCHANGED <<replacer_size, max_accesses, current_size, current_timestamp,
                   node_store, pc, evicted_frame, issued>>

\* evict, lines 62-93: the scan under the write lock
EvictScan ==
    /\ borrow_free(pc)
    /\ can_write(lock)
    /\ lock' = evict_block_end("write")
    /\ \E order \in iter_orders(node_store) :
         LET acc == scan(LRUKReplacerState, order)
         IN  /\ evicted_frame' = acc.evicted_frame
             /\ pc' = IF acc.panicked THEN "panicked" ELSE "evict_scanned"
    /\ ret' = Ret("evict", NoFrame, FALSE, "running", 0)
    /\ pre' = LRUKReplacerState
    /\ UNCHANGED <<replacer_size, max_accesses, current_size, current_timestamp,
                   node_store, issued>>

\* evict, lines 95-102: remove the chosen frame and return
EvictFinish ==
    /\ pc = "evict_scanned"
    /\ IF evicted_frame # NoFrame
       THEN LET r == remove(LRUKReplacerState, evicted_frame)
            IN  /\ can_write(lock)
                /\ Apply(r.state)
                /\ issued' = issued_after(r.state.node_store, evicted_frame, FALSE)
                /\ ret' = IF r.res = "Ok"
                          THEN Ret("evict", NoFrame, FALSE, "Ok", evicted_frame)
                          ELSE Ret("evict", NoFrame, FALSE, ErrEvictRemove, 0)
       ELSE /\ UNCHANGED <<current_size, current_timestamp, node_store, issued>>
            /\ ret' = Ret("evict", NoFrame, FALSE, "Ok", NoFrame)
    /\ lock' = guard_dropped(lock)
    /\ pc' = "idle"
    /\ evicted_frame' = NoFrame
    /\ UNCHANGED <<replacer_size, max_accesses, pre>>

Next ==
    \/ \E f \in Frames : RecordAccess(f)
    \/ \E f \in Frames : Remove(f)
    \/ \E f \in Frames, b \in BOOLEAN : SetEvictable(f, b)
    \/ Size
    \/ EvictScan
    \/ EvictFinish

Spec == Init /\ [][Next]_vars

\* a call that has started keeps running: the thread inside evict is scheduled
FairSpec == Spec /\ WF_vars(EvictFinish)

TypeOK ==
    /\ replacer_size \in 1..MaxCapacity
    /\ max_accesses \in 1..MaxK
    /\ current_timestamp \in 1..MaxClock
    /\ DOMAIN node_store \subseteq Frames
    /\ lock \in {"free", "read", "write"}
    /\ pc \in {"idle", "evict_scanned", "panicked"}
    /\ evicted_frame \in Frames \cup {NoFrame}

\* ---- vocabulary of the properties ----
Tracked(s) == DOMAIN s.node_store

EvictableIn(s) == {f \in DOMAIN s.node_store : s.node_store[f].is_evictable}

PinnedIn(s) == {f \in DOMAIN s.node_store : ~s.node_store[f].is_evictable}

\* evictable frames with fewer than k recorded accesses
IncompleteIn(s) ==
    {f \in EvictableIn(s) : Len(s.node_store[f].history) < max_accesses}

Earliest(s, f) == s.node_store[f].history[1]

Latest(s, f) == s.node_store[f].history[Len(s.node_store[f].history)]

Returned(op) == ret.op = op /\ ret.res # "running"

OthersUnchanged(f) ==
    /\ DOMAIN node_store = (DOMAIN pre.node_store) \ {f}
    /\ \A g \in DOMAIN node_store : node_store[g] = pre.node_store[g]

\* C1: after every call, successful or failed, size() is the number of
\* tracked frames whose evictable flag is true; the counter is never below 0
\* and never above the number of tracked frames.
C1_SizeCountsEvictable ==
    /\ size(LRUKReplacerState) = Cardinality(EvictableIn(LRUKReplacerState))
    /\ current_size >= 0
    /\ current_size <= map_len(node_store)
    /\ Returned("size") => ret.value = Cardinality(EvictableIn(LRUKReplacerState))

C1_Witness ==
    /\ Returned("remove") /\ ret.res = "Ok"
    /\ current_size >= 1
    /\ map_len(node_store) > current_size

\* C2: when some evictable frame has fewer than k recorded accesses, evict
\* returns such a frame, never one with a full window, and among them the one
\* whose earliest recorded timestamp is smallest.
C2_IncompleteHistoryFirst ==
    (Returned("evict") /\ IncompleteIn(pre) # {}) =>
        /\ ret.res = "Ok"
        /\ ret.value \in IncompleteIn(pre)
        /\ \A g \in IncompleteIn(pre) : Earliest(pre, ret.value) <= Earliest(pre, g)

C2_Witness ==
    /\ Returned("evict") /\ ret.res = "Ok"
    /\ ret.value \in IncompleteIn(pre)
    /\ \E g \in EvictableIn(pre) \ IncompleteIn(pre) :
           Earliest(pre, g) < Earliest(pre, ret.value)
    /\ \E g \in IncompleteIn(pre) : g # ret.value

\* C3: when every evictable frame has a full window of k accesses, evict
\* returns the evictable frame with the largest backward k-distance (clock
\* minus the oldest timestamp of its window), however recent its last access.
C3_LargestKDistance ==
    (Returned("evict") /\ EvictableIn(pre) # {} /\ IncompleteIn(pre) = {}) =>
        /\ ret.res = "Ok"
        /\ ret.value \in EvictableIn(pre)
        /\ \A g \in EvictableIn(pre) :
               pre.current_timestamp - Earliest(pre, ret.value)
                   >= pre.current_timestamp - Earliest(pre, g)

C3_Witness ==
    /\ Returned("evict") /\ ret.res = "Ok"
    /\ ret.value \in EvictableIn(pre)
    /\ IncompleteIn(pre) = {}
    /\ \E g \in EvictableIn(pre) : Latest(pre, g) < Latest(pre, ret.value)

\* C4: the number of distinct tracked frames is at most the capacity the
\* replacer was constructed with.
C4_TrackedWithinCapacity == map_len(node_store) <= replacer_size

\* C5: once exactly C frames are tracked, record_access on an untracked frame
\* returns the capacity error and leaves the whole state unchanged;
\* record_access on a tracked frame still succeeds.
C5_FullRejectsUnseen ==
    (Returned("record_access") /\ map_len(pre.node_store) = replacer_size) =>
        IF ret.frame_id \in Tracked(pre)
        THEN ret.res = "Ok"
        ELSE ret.res = ErrCapacity /\ LRUKReplacerState = pre

\* C6: when evict returns a frame f, f is no longer tracked, size() is one
\* less than before the call, the clock is unchanged, every other frame keeps
\* its history and flag, and remove(f) would fail as unknown frame.
C6_EvictRemovesVictim ==
    (Returned("evict") /\ ret.res = "Ok" /\ ret.value # NoFrame) =>
        /\ ret.value \in Tracked(pre)
        /\ ret.value \notin Tracked(LRUKReplacerState)
        /\ size(LRUKReplacerState) = size(pre) - 1
        /\ current_timestamp = pre.current_timestamp
        /\ OthersUnchanged(ret.value)
        /\ remove(LRUKReplacerState, ret.value).res = ErrRemoveUnknown
        /\ remove(LRUKReplacerState, ret.value).state = LRUKReplacerState

C6_Witness ==
    /\ Returned("evict") /\ ret.res = "Ok" /\ ret.value # NoFrame
    /\ EvictableIn(LRUKReplacerState) # {}
    /\ PinnedIn(LRUKReplacerState) # {}

\* C7: a tracked frame whose evictable flag is false is never dropped: evict
\* never returns it, neither evict nor remove deletes its tracker, and it
\* stays tracked, its history touched by nothing but its own accesses, until
\* a set_evictable(f, true) takes effect.
C7_PinnedStaysTracked ==
    \A f \in PinnedIn(pre) :
        /\ f \in Tracked(LRUKReplacerState)
        /\ Returned("evict") => ret.value # f
        /\ node_store[f].is_evictable =>
               (ret.op = "set_evictable" /\ ret.frame_id = f /\ ret.flag)
        /\ IF ret.op = "record_access" /\ ret.frame_id = f
           THEN LET h == node_store[f].history
                    old == pre.node_store[f].history
                IN  /\ h[Len(h)] = pre.current_timestamp
                    /\ SubSeq(h, 1, Len(h) - 1) =
                           (IF Len(old) < max_accesses THEN old ELSE Tail(old))
           ELSE node_store[f].history = pre.node_store[f].history

C7_Witness ==
    /\ Returned("evict") /\ ret.res = "Ok" /\ ret.value # NoFrame
    /\ \E f \in PinnedIn(pre) :
           /\ Len(pre.node_store[f].history) < max_accesses
           /\ Earliest(pre, f) < Earliest(pre, ret.value)
           /\ f \in Tracked(LRUKReplacerState)

\* C8: remove on a tracked non-evictable frame fails with the not-evictable
\* error and changes nothing; on a tracked evictable frame it succeeds,
\* deletes the tracker and decreases size() by one, leaving the other frames
\* and the clock unchanged.
C8_RemoveContract ==
    (Returned("remove") /\ ret.frame_id \in Tracked(pre)) =>
        IF ret.frame_id \in PinnedIn(pre)
        THEN /\ ret.res = ErrNotEvictable
             /\ LRUKReplacerState = pre
        ELSE /\ ret.res = "Ok"
             /\ ret.frame_id \notin Tracked(LRUKReplacerState)
             /\ size(LRUKReplacerState) = size(pre) - 1
             /\ current_timestamp = pre.current_timestamp
             /\ OthersUnchanged(ret.frame_id)

C8_Witness ==
    /\ Returned("remove") /\ ret.res = "Ok"
    /\ ret.frame_id \in EvictableIn(pre)
    /\ EvictableIn(LRUKReplacerState) # {}
    /\ current_timestamp > 3

\* C9: remove and set_evictable on a frame that is not tracked return an
\* unknown-frame error and leave the whole state unchanged.
C9_UnknownFrame ==
    (ret.op \in {"remove", "set_evictable"} /\ ret.frame_id \notin Tracked(pre)) =>
        /\ ret.res = (IF ret.op = "remove" THEN ErrRemoveUnknown
                      ELSE ErrSetEvictableUnknown)
        /\ LRUKReplacerState = pre

C9_Witness ==
    /\ Returned("set_evictable") /\ ret.flag
    /\ ret.res = ErrSetEvictableUnknown
    /\ ret.frame_id \notin Tracked(pre)
    /\ EvictableIn(pre) # {}
    /\ PinnedIn(pre) # {}

\* C10: evict on a replacer with no evictable frame returns success with no
\* victim and changes nothing.
C10_EvictNoVictim ==
    (Returned("evict") /\ EvictableIn(pre) = {}) =>
        /\ ret.res = "Ok"
        /\ ret.value = NoFrame
        /\ LRUKReplacerState = pre

C10_Witness ==
    /\ Returned("evict") /\ ret.res = "Ok" /\ ret.value = NoFrame
    /\ EvictableIn(pre) = {}
    /\ map_len(pre.node_store) >= 2

\* C11: evict never returns an error: its outcome is success, carrying a
\* victim or none.
C11_EvictNeverErrs ==
    Returned("evict") =>
        /\ ret.res = "Ok"
        /\ ret.value \in Frames \cup {NoFrame}

C11_Witness ==
    /\ Returned("evict") /\ ret.res = "Ok" /\ ret.value # NoFrame
    /\ PinnedIn(pre) # {}
    /\ Cardinality(EvictableIn(pre)) >= 2

\* C12 as stated: evict holds the exclusive lock from the start of its scan
\* until its victim has been removed.
C12_EvictHoldsLockUntilRemoved ==
    pc = "evict_scanned" =>
        /\ lock = "write"
        /\ LRUKReplacerState = pre

\* C12, amended: between the scan of evict and the removal of its victim the
\* lock is free, yet no other call takes effect there (the exclusive borrow
\* of the replacer keeps other calls out), so the victim is removed from the
\* very state that was scanned and evict is one indivisible step.
C12_EvictIndivisibleByBorrow ==
    /\ pc = "evict_scanned" =>
           /\ lock = "free"
           /\ ret.op = "evict" /\ ret.res = "running"
           /\ LRUKReplacerState = pre
           /\ evicted_frame # NoFrame => evicted_frame \in EvictableIn(pre)
    /\ pc = "idle" => lock = "free"
    /\ (Returned("evict") /\ ret.res = "Ok" /\ ret.value # NoFrame) =>
           ret.value \in EvictableIn(pre)

C12_Witness ==
    /\ pc = "evict_scanned"
    /\ lock = "free"
    /\ evicted_frame # NoFrame
    /\ Cardinality(EvictableIn(LRUKReplacerState)) >= 2

\* C13: no operation acquires the lock while it is held, so every started
\* call returns: when evict calls remove its scan guard is gone, and under
\* fair scheduling a call inside evict reaches its return.
C13_NoSelfDeadlock ==
    /\ [](pc = "evict_scanned" => can_write(lock))
    /\ (pc = "evict_scanned") ~> (pc = "idle")

C13_Witness ==
    /\ pc = "evict_scanned"
    /\ can_write(lock)
    /\ evicted_frame # NoFrame
    /\ PinnedIn(LRUKReplacerState) # {}

\* the timestamps held in the window of frame f
StampsOf(s, f) == {s.node_store[f].history[i] : i \in 1..Len(s.node_store[f].history)}

StrictlyIncreasing(h) == \A i, j \in 1..Len(h) : i < j => h[i] < h[j]

\* C14 as stated: the clock increases by exactly 1 per record_access call.
C14_ClockTicksPerCall ==
    Returned("record_access") => current_timestamp = pre.current_timestamp + 1

\* C14, amended: the clock starts at 1 and increases by exactly 1 per
\* successful record_access, on a new or an existing frame; a record_access
\* that fails with the capacity error leaves it unchanged, as do
\* set_evictable, remove, evict and size.  The timestamps recorded are
\* strictly increasing in call order: no two accesses share a timestamp.
C14_ClockTicksPerSuccessfulAccess ==
    /\ ret.op = "new" => current_timestamp = 1
    /\ (Returned("record_access") /\ ret.res = "Ok") =>
           /\ current_timestamp = pre.current_timestamp + 1
           /\ Latest(LRUKReplacerState, ret.frame_id) = pre.current_timestamp
    /\ (Returned("record_access") /\ ret.res # "Ok") =>
           /\ ret.res = ErrCapacity
           /\ current_timestamp = pre.current_timestamp
    /\ ret.op \in {"set_evictable", "remove", "evict", "size"} =>
           current_timestamp = pre.current_timestamp
    /\ \A f \in DOMAIN node_store :
           /\ StrictlyIncreasing(node_store[f].history)
           /\ \A t \in StampsOf(LRUKReplacerState, f) : t \in 1..(current_timestamp - 1)
           /\ \A g \in DOMAIN node_store :
                  f # g => StampsOf(LRUKReplacerState, f)
                               \cap StampsOf(LRUKReplacerState, g) = {}

C14_Witness ==
    /\ Returned("record_access") /\ ret.res = "Ok"
    /\ ret.frame_id \in Tracked(pre)
    /\ Len(pre.node_store[ret.frame_id].history) = max_accesses
    /\ map_len(node_store) >= 2
    /\ current_timestamp >= 5

Min(a, b) == IF a < b THEN a ELSE b

\* the last n entries of the sequence q
LastN(q, n) == SubSeq(q, Len(q) - n + 1, Len(q))

\* C15: the window of every tracked frame has length at most k and holds,
\* oldest first and strictly increasing, exactly the last min(k, n) of the n
\* timestamps issued to the frame since its tracker was created; after more
\* than k accesses its length is exactly k.
C15_WindowIsLastK ==
    /\ DOMAIN issued = DOMAIN node_store
    /\ \A f \in DOMAIN node_store :
           LET h == node_store[f].history
               n == Len(issued[f])
           IN  /\ Len(h) <= max_accesses
               /\ Len(h) = Min(max_accesses, n)
               /\ h = LastN(issued[f], Min(max_accesses, n))
               /\ StrictlyIncreasing(h)
               /\ n > max_accesses => Len(h) = max_accesses

C15_Witness ==
    /\ max_accesses = 2
    /\ \E f \in DOMAIN node_store :
           /\ Len(issued[f]) > max_accesses
           /\ \E g \in DOMAIN node_store :
                  /\ g # f
                  /\ Earliest(LRUKReplacerState, f) < Latest(LRUKReplacerState, g)
                  /\ Latest(LRUKReplacerState, g) < Latest(LRUKReplacerState, f)

\* the frames of s other than f, with their trackers
Except(s, f) == [g \in (DOMAIN s.node_store) \ {f} |-> s.node_store[g]]

\* C16: set_evictable is idempotent: twice in a row leaves the state of once;
\* a call whose flag equals the current one succeeds and changes nothing; a
\* call that flips the flag changes size() by +1 or -1 and nothing else.
C16_SetEvictableIdempotent ==
    /\ \A f \in DOMAIN node_store, b \in BOOLEAN :
           LET once == set_evictable(LRUKReplacerState, f, b)
               twice == set_evictable(once.state, f, b)
           IN  /\ once.res = "Ok" /\ twice.res = "Ok"
               /\ twice.state = once.state
               /\ is_evictable(node_store[f]) = b => once.state = LRUKReplacerState
    /\ (Returned("set_evictable") /\ ret.frame_id \in Tracked(pre)) =>
           LET f == ret.frame_id
               was == pre.node_store[f].is_evictable
           IN  /\ ret.res = "Ok"
               /\ current_timestamp = pre.current_timestamp
               /\ DOMAIN node_store = DOMAIN pre.node_store
               /\ Except(LRUKReplacerState, f) = Except(pre, f)
               /\ node_store[f].history = pre.node_store[f].history
               /\ node_store[f].is_evictable = ret.flag
               /\ size(LRUKReplacerState) =
                      size(pre) + (IF was = ret.flag THEN 0
                                   ELSE IF ret.flag THEN 1 ELSE -1)

C16_Witness ==
    /\ Returned("set_evictable") /\ ret.res = "Ok" /\ ret.flag
    /\ ret.frame_id \in EvictableIn(pre)
    /\ LRUKReplacerState = pre
    /\ size(LRUKReplacerState) = 1
    /\ PinnedIn(pre) # {}

\* C17: every tracker in the map has a non-empty history, so the
\* empty-history panic and the expect inside the scan of evict are never hit.
C17_HistoryNeverEmpty ==
    /\ max_accesses >= 1
    /\ \A f \in DOMAIN node_store : history_length(node_store[f]) >= 1
    /\ pc # "panicked"
    /\ \A order \in iter_orders(node_store) :
           ~scan(LRUKReplacerState, order).panicked

C17_Witness ==
    /\ pc = "evict_scanned"
    /\ evicted_frame # NoFrame
    /\ max_accesses = 1
    /\ Len(issued[evicted_frame]) > max_accesses
    /\ history_length(node_store[evicted_frame]) = 1

\* C18: a successful record_access on a frame that is not tracked creates a
\* tracker whose history is the one current clock value and whose flag is
\* false, so size() is unchanged and earlier accesses do not count; on a
\* tracked frame record_access changes neither the flag nor size().
C18_FreshTracker ==
    (Returned("record_access") /\ ret.res = "Ok") =>
        LET f == ret.frame_id
        IN  /\ f \in Tracked(LRUKReplacerState)
            /\ size(LRUKReplacerState) = size(pre)
            /\ Except(LRUKReplacerState, f) = Except(pre, f)
            /\ IF f \in Tracked(pre)
               THEN node_store[f].is_evictable = pre.node_store[f].is_evictable
               ELSE /\ node_store[f].history = <<pre.current_timestamp>>
                    /\ node_store[f].is_evictable = FALSE
                    /\ issued[f] = <<pre.current_timestamp>>

C18_Witness ==
    /\ Returned("record_access") /\ ret.res = "Ok"
    /\ ret.frame_id \notin Tracked(pre)
    /\ Tracked(pre) = {}
    /\ pre.current_timestamp >= 4
    /\ node_store[ret.frame_id].history = <<pre.current_timestamp>>

\* C19: no two distinct evictable tracked frames have the same computed
\* backward distance, so the victim of evict is determined by the state and
\* does not depend on the iteration order of the map.
C19_DistancesDistinct ==
    /\ \A f, g \in EvictableIn(LRUKReplacerState) :
           f # g => backwards_k_distance(node_store[f], current_timestamp)
                        # backwards_k_distance(node_store[g], current_timestamp)
    /\ LET some == CHOOSE o \in iter_orders(node_store) : TRUE
       IN  \A order \in iter_orders(node_store) :
               scan(LRUKReplacerState, order).evicted_frame
                   = scan(LRUKReplacerState, some).evicted_frame

C19_Witness ==
    /\ pc = "evict_scanned"
    /\ evicted_frame # NoFrame
    /\ Cardinality(EvictableIn(LRUKReplacerState)) = 3
    /\ IncompleteIn(LRUKReplacerState) # {}
    /\ EvictableIn(LRUKReplacerState) \ IncompleteIn(LRUKReplacerState) # {}

\* C20: evict returns a victim whenever some tracked frame is evictable:
\* every recorded timestamp is below the clock, so the subtraction does not
\* underflow and every distance is at least 1, above the initial maximum 0;
\* evict returns none only when size() is 0.
C20_VictimWhenEvictable ==
    /\ \A f \in EvictableIn(LRUKReplacerState) :
           /\ front_of_history(node_store[f]) < current_timestamp
           /\ start_distance(node_store[f], current_timestamp)
                  >= front_of_history(node_store[f])
           /\ backwards_k_distance(node_store[f], current_timestamp) >= 1
    /\ (Returned("evict") /\ EvictableIn(pre) # {}) =>
           ret.res = "Ok" /\ ret.value # NoFrame
    /\ (Returned("evict") /\ ret.res = "Ok" /\ ret.value = NoFrame) =>
           size(pre) = 0

C20_Witness ==
    /\ Returned("evict") /\ ret.res = "Ok" /\ ret.value # NoFrame
    /\ Len(pre.node_store[ret.value].history) >= max_accesses
    /\ pre.current_timestamp - Earliest(pre, ret.value) = 1
    /\ PinnedIn(pre) # {}
====
